---- MODULE Spec2Model ----
(***************************************************************************)
(* REViewer: candidate diplotype enumeration (app/GenotypePaths.cpp), the  *)
(* path summarizer, and the k-mer path index of the bundled graph-tools    *)
(* library as pinned down by its unit tests.                               *)
(*                                                                         *)
(* Node ids are 0-based as in the source; TLA+ sequences are 1-based, so   *)
(* the sequence of node n is nodeSeqs[n + 1].  A node sequence is a tuple  *)
(* of one-letter strings.                                                  *)
(***************************************************************************)
EXTENDS Integers, Sequences, FiniteSets, TLC

(* ------------------------------ bounds --------------------------------- *)
\* largest number of nodes of an enumerated locus graph
MaxNodes == 4
\* largest repeat length of a VCF record, and largest mean fragment length
MaxLen == 2
\* largest repeat length of a record of the worked (CAG) example locus
MaxExampleLen == 4
\* longest node-id sequence given to summarizePath
MaxPathLen == 3
\* largest k of a k-mer index
MaxK == 4

VARIABLES
    graph,                     \* locusSpec.regionGraph(): [nodeSeqs, edges]
    variantSpecs,              \* locusSpec.variantSpecs()
    vcf,                       \* the VCF: one record per variant, or none
    meanFragLen,               \* mean fragment length (the cap)
    ndebug,                    \* TRUE iff the build compiles assert() away
    pc,                        \* position in getCandidateDiplotypes & callers
    variantIdx,                \* loop index of getGenotypeNodesByNodeRange
    genotypeNodesByNodeRange,  \* map<NodeRange, NodeVectors>
    nodesByDiplotype,          \* vector<NodeVectors> grown by the walk
    node,                      \* the walk pointer
    diplotypes,                \* the returned vector<Diplotype>
    error,                     \* the exception that ended the call, or "none"
    out,                       \* what operator<< wrote, one string per diplotype
    path,                      \* the Path handed to summarizePath
    summary,                   \* the string summarizePath returned
    kmerSize,                  \* KmerIndex: k
    kmerPath,                  \* KmerIndex: the walk being extended
    kmer                       \* KmerIndex: a key under which kmerPath is filed

vars == <<graph, variantSpecs, vcf, meanFragLen, ndebug, pc, variantIdx,
          genotypeNodesByNodeRange, nodesByDiplotype, node, diplotypes, error,
          out, path, summary, kmerSize, kmerPath, kmer>>

locusVars == <<graph, variantSpecs, vcf, meanFragLen, ndebug>>
enumVars == <<variantIdx, genotypeNodesByNodeRange, nodesByDiplotype, node,
              diplotypes, error, out>>
summaryVars == <<path, summary>>
kmerVars == <<kmerSize, kmerPath, kmer>>

(* --------------------------- small helpers ----------------------------- *)
Min(a, b) == IF a <= b THEN a ELSE b

\* std::vector<T>(n, x)
Fill(n, x) == [i \in 1..n |-> x]

Last(s) == s[Len(s)]

\* std::count(s.begin(), s.end(), x)
Count(s, x) == Cardinality({i \in 1..Len(s) : s[i] = x})

RECURSIVE Str(_)
\* a tuple of one-letter strings as one string
Str(letters) ==
    IF letters = <<>> THEN "" ELSE Head(letters) \o Str(Tail(letters))

RECURSIVE Pow2(_)
Pow2(n) == IF n = 0 THEN 1 ELSE 2 * Pow2(n - 1)

(* ------------------------------- graph --------------------------------- *)
numNodes(g) == Len(g.nodeSeqs)
nodeSeq(g, n) == g.nodeSeqs[n + 1]
hasEdge(g, u, v) == <<u, v>> \in g.edges

(* -------------------------------- Path --------------------------------- *)
\* graphtools::Path(graph, start_position, nodes, end_position); the graph
\* reference is the one graph of the state
Path(startPos, nodes, endPos) ==
    [startPos |-> startPos, nodes |-> nodes, endPos |-> endPos]

RECURSIVE NodesLess(_, _)
\* std::vector<NodeId>::operator< : lexicographic, a proper prefix is smaller
NodesLess(a, b) ==
    IF b = <<>> THEN FALSE
    ELSE IF a = <<>> THEN TRUE
    ELSE IF Head(a) # Head(b) THEN Head(a) < Head(b)
    ELSE NodesLess(Tail(a), Tail(b))

\* Path::operator< : lexicographic over (start offset, node ids, end offset)
PathLess(p, q) ==
    IF p.startPos # q.startPos THEN p.startPos < q.startPos
    ELSE IF p.nodes # q.nodes THEN NodesLess(p.nodes, q.nodes)
    ELSE p.endPos < q.endPos

RECURSIVE DiplotypeLess(_, _)
\* std::vector<Path>::operator< : lexicographic by Path::operator<
DiplotypeLess(d, e) ==
    IF e = <<>> THEN FALSE
    ELSE IF d = <<>> THEN TRUE
    ELSE IF PathLess(Head(d), Head(e)) THEN TRUE
    ELSE IF PathLess(Head(e), Head(d)) THEN FALSE
    ELSE DiplotypeLess(Tail(d), Tail(e))

(* ----------------------- extractRepeatLengths -------------------------- *)
\* a VCF record of a variant: absent, the no-call "./.", or called sizes
Absent == [kind |-> "absent", sizes |-> <<>>]
NoCall == [kind |-> "nocall", sizes |-> <<>>]
Called(sizes) == [kind |-> "called", sizes |-> sizes]

\* what extractRepeatLengths does once the file is open: the exception it
\* throws ("none" when it returns) and the sizes it returns
extractRepeatLengths(record) ==
    IF record.kind = "nocall" THEN [error |-> "MissingGenotype", sizes |-> <<>>]
    ELSE IF record.kind = "absent" THEN [error |-> "NotFound", sizes |-> <<>>]
    ELSE [error |-> "none", sizes |-> record.sizes]

\* capLengths with the comparison inverted: the larger of length and bound
capLengthsInverted(upperBound, lengths) ==
    [i \in 1..Len(lengths) |->
        IF lengths[i] >= upperBound THEN lengths[i] ELSE upperBound]

(* ----------------------------- capLengths ------------------------------ *)
capLengths(upperBound, lengths) ==
    [i \in 1..Len(lengths) |->
        IF lengths[i] <= upperBound THEN lengths[i] ELSE upperBound]

(* ------------------- getGenotypeNodesByNodeRange ----------------------- *)
\* lines 137-147: the inclusive range of the variant's nodes
NodeRangeOf(nodes) ==
    LET ids == {nodes[i] : i \in 1..Len(nodes)} \ {-1}
    IN  <<CHOOSE lo \in ids : \A x \in ids : lo <= x,
          CHOOSE hi \in ids : \A x \in ids : hi >= x>>

\* lines 125-135: one NodeVector per allele, repeatLen copies of the node
GenotypeNodes(variantSpec, record) ==
    LET repeatNode == Head(variantSpec.nodes)
        repeatLens == capLengths(meanFragLen, extractRepeatLengths(record).sizes)
    IN  [i \in 1..Len(repeatLens) |-> Fill(repeatLens[i], repeatNode)]

\* std::map::emplace: no effect when the key is already there
Emplace(m, key, value) ==
    IF key \in DOMAIN m THEN m
    ELSE [k \in DOMAIN m \cup {key} |-> IF k = key THEN value ELSE m[k]]

\* order of the keys of a std::map<pair<NodeId, NodeId>, ...>
RangeLess(r, s) == r[1] < s[1] \/ (r[1] = s[1] /\ r[2] < s[2])
FirstRange(ranges) == CHOOSE r \in ranges : \A s \in ranges \ {r} : RangeLess(r, s)

(* --------------------- getVariantGenotypeNodes ------------------------- *)
RangesAt(m, n) == {r \in DOMAIN m : r[1] <= n /\ n <= r[2]}
HasVariantAt(m, n) == RangesAt(m, n) # {}
\* getVariantGenotypeNodes returning nodeRange.first for the last node
getVariantGenotypeNodesFirst(m, n) ==
    LET r == FirstRange(RangesAt(m, n))
    IN  [first |-> m[r], second |-> r[1]]

\* the optional's value: (paths, nodeRange.second) of the first range in map
\* order that holds the node
getVariantGenotypeNodes(m, n) ==
    LET r == FirstRange(RangesAt(m, n))
    IN  [first |-> m[r], second |-> r[2]]

\* extendDiplotype without the second phase of a two-haplotype genotype
ExtendGenotypeOnePhase(genotype, genotypeExtension) ==
    IF Len(genotype) = 1
    THEN << <<Head(genotype) \o Head(genotypeExtension)>> >>
    ELSE << <<Head(genotype) \o Head(genotypeExtension),
              Last(genotype) \o Last(genotypeExtension)>> >>

(* --------------------------- extendDiplotype --------------------------- *)
ExtendGenotype(genotype, genotypeExtension) ==
    IF Len(genotype) = 1
    THEN << <<Head(genotype) \o Head(genotypeExtension)>> >>
    ELSE << <<Head(genotype) \o Head(genotypeExtension),
              Last(genotype) \o Last(genotypeExtension)>>,
            <<Head(genotype) \o Last(genotypeExtension),
              Last(genotype) \o Head(genotypeExtension)>> >>

RECURSIVE extendDiplotype(_, _)
extendDiplotype(genotypes, genotypeExtension) ==
    IF genotypes = <<>> THEN <<>>
    ELSE ExtendGenotype(Head(genotypes), genotypeExtension)
         \o extendDiplotype(Tail(genotypes), genotypeExtension)

\* the assert of line 178, over all genotypes of the loop
ExtendAssertHolds(genotypes, genotypeExtension) ==
    \A i \in 1..Len(genotypes) : Len(genotypes[i]) = Len(genotypeExtension)

(* ------------------ getCandidateDiplotypes, lines 242-266 -------------- *)
\* lines 247-251 without the swap of lines 255-258
CanonicalUnordered(diplotypeNodes) ==
    LET rightFlankLength == Len(nodeSeq(graph, numNodes(graph) - 1))
    IN  [h \in 1..Len(diplotypeNodes) |->
            Path(0, diplotypeNodes[h], rightFlankLength)]

\* lines 247-258 with the comparison of line 255 turned around
CanonicalBackFirst(diplotypeNodes) ==
    LET rightFlankLength == Len(nodeSeq(graph, numNodes(graph) - 1))
        diplotype == [h \in 1..Len(diplotypeNodes) |->
                          Path(0, diplotypeNodes[h], rightFlankLength)]
    IN  IF PathLess(Last(diplotype), Head(diplotype))
        THEN [h \in 1..Len(diplotype) |->
                 IF h = 1 THEN Last(diplotype)
                 ELSE IF h = Len(diplotype) THEN Head(diplotype)
                 ELSE diplotype[h]]
        ELSE diplotype

\* lines 247-258: the haplotypes as Paths, swapped when front < back
Canonical(diplotypeNodes) ==
    LET rightFlankLength == Len(nodeSeq(graph, numNodes(graph) - 1))
        diplotype == [h \in 1..Len(diplotypeNodes) |->
                          Path(0, diplotypeNodes[h], rightFlankLength)]
    IN  IF PathLess(Head(diplotype), Last(diplotype))
        THEN [h \in 1..Len(diplotype) |->
                 IF h = 1 THEN Last(diplotype)
                 ELSE IF h = Len(diplotype) THEN Head(diplotype)
                 ELSE diplotype[h]]
        ELSE diplotype

RECURSIVE Insert(_, _)
Insert(d, sorted) ==
    IF sorted = <<>> THEN <<d>>
    ELSE IF DiplotypeLess(d, Head(sorted)) THEN <<d>> \o sorted
    ELSE <<Head(sorted)>> \o Insert(d, Tail(sorted))

RECURSIVE Sort(_)
\* std::sort by operator< (a total order, so the result is determined)
Sort(ds) == IF ds = <<>> THEN <<>> ELSE Insert(Head(ds), Sort(Tail(ds)))

RECURSIVE Unique(_)
\* erase(std::unique(...)): drops every element equal to its predecessor
Unique(ds) ==
    IF Len(ds) <= 1 THEN ds
    ELSE IF ds[1] = ds[2] THEN Unique(Tail(ds))
    ELSE <<Head(ds)>> \o Unique(Tail(ds))

\* lines 242-266 with the right flank appended to every haplotype once more
MaterializedWithFlank(candidates) ==
    Unique(Sort([i \in 1..Len(candidates) |->
        Canonical([h \in 1..Len(candidates[i]) |->
                      Append(candidates[i][h], numNodes(graph) - 1)])]))

\* lines 242-266: the returned list
Materialized(candidates) ==
    Unique(Sort([i \in 1..Len(candidates) |-> Canonical(candidates[i])]))

(* ---------------------------- summarizePath ---------------------------- *)
\* the length of the run of x that starts at position i of s
RunLength(s, i, x) ==
    LET stop == {j \in i..Len(s) : s[j] # x}
    IN  IF stop = {} THEN Len(s) - i + 1
        ELSE (CHOOSE j \in stop : \A k \in stop : j <= k) - i

\* RenderNode counting the first contiguous run of the node only
RenderNodeFirstRun(g, p, nodeId) ==
    IF nodeId = 0 THEN "(LF)"
    ELSE IF nodeId + 1 = numNodes(g) THEN "(RF)"
    ELSE "(" \o Str(nodeSeq(g, nodeId)) \o ")"
         \o (IF hasEdge(g, nodeId, nodeId)
             THEN "{" \o ToString(RunLength(p.nodes,
                        CHOOSE i \in 1..Len(p.nodes) :
                            p.nodes[i] = nodeId /\ \A j \in 1..(i - 1) : p.nodes[j] # nodeId,
                        nodeId)) \o "}"
             ELSE "")

\* lines 281-302: what one first visit of nodeId appends to the summary
RenderNode(g, p, nodeId) ==
    IF nodeId = 0 THEN "(LF)"
    ELSE IF nodeId + 1 = numNodes(g) THEN "(RF)"
    ELSE "(" \o Str(nodeSeq(g, nodeId)) \o ")"
         \o (IF hasEdge(g, nodeId, nodeId)
             THEN "{" \o ToString(Count(p.nodes, nodeId)) \o "}"
             ELSE "")

RECURSIVE SummarizeFrom(_, _, _, _)
\* the loop of lines 274-305 from position i with the given observed set
SummarizeFrom(g, p, i, observed) ==
    IF i > Len(p.nodes) THEN ""
    ELSE IF p.nodes[i] \in observed THEN SummarizeFrom(g, p, i + 1, observed)
    ELSE RenderNode(g, p, p.nodes[i])
         \o SummarizeFrom(g, p, i + 1, observed \cup {p.nodes[i]})

summarizePath(g, p) == SummarizeFrom(g, p, 1, {})

\* operator<<(ostream, Diplotype)
WriteDiplotype(g, diplotype) ==
    summarizePath(g, Head(diplotype))
    \o (IF Len(diplotype) = 2 THEN "/" \o summarizePath(g, Last(diplotype)) ELSE "")

(* ------------------------------ the locus ------------------------------ *)
LeftFlankSeq == <<"A", "C">>
RightFlankSeq == <<"G", "T", "T">>
\* the sequence of an interior node: a repeat motif
Motif(n) == IF n % 2 = 1 THEN <<"C", "A", "G">> ELSE <<"C", "C", "G">>

\* a locus graph of n nodes: flanks at 0 and n-1, a chain of edges, and at
\* every repeat node a self-loop and the edges that skip it
LocusGraph(n, repeatNodes) ==
    [nodeSeqs |-> [i \in 1..n |->
                      IF i = 1 THEN LeftFlankSeq
                      ELSE IF i = n THEN RightFlankSeq
                      ELSE Motif(i - 1)],
     edges |-> {e \in (0..(n - 1)) \X (0..(n - 1)) :
                   /\ e[1] < e[2]
                   /\ \A w \in (e[1] + 1)..(e[2] - 1) : w \in repeatNodes}
               \cup {<<v, v>> : v \in repeatNodes}]

RECURSIVE Ascending(_)
\* the members of a set of node ids in increasing order
Ascending(S) ==
    IF S = {} THEN <<>>
    ELSE LET lo == CHOOSE x \in S : \A y \in S : x <= y
         IN  <<lo>> \o Ascending(S \ {lo})

\* genotype encodings "a" and "a/b" with sizes up to maxLen
Genotypes(maxLen) ==
    {<<a>> : a \in 0..maxLen} \cup {<<a, b>> : a, b \in 0..maxLen}
Records(maxLen) == {Absent, NoCall} \cup {Called(g) : g \in Genotypes(maxLen)}

VariantSpec(type, n) == [type |-> type, nodes |-> <<n>>]

InitEnumerator ==
    /\ pc = "extract"
    /\ variantIdx = 1
    /\ genotypeNodesByNodeRange = <<>>
    /\ nodesByDiplotype = <<>>
    /\ node = 0
    /\ diplotypes = <<>>
    /\ error = "none"
    /\ out = <<>>

NoSummary ==
    /\ path = Path(0, <<>>, 0)
    /\ summary = ""

NoKmerIndex ==
    /\ kmerSize = 0
    /\ kmerPath = Path(0, <<>>, 0)
    /\ kmer = <<>>

\* the state at the call of getCandidateDiplotypes(meanFragLen, vcfPath, locusSpec):
\* the variants own distinct interior nodes and are listed along the locus; a
\* small variant's record is never read and is left out of the VCF.  Every
\* variant has one node and every record one or two sizes, so of the asserts
\* only the one of line 178 can fail.
Init ==
    /\ \E n \in 3..MaxNodes :
       \E V \in (SUBSET (1..(n - 2))) \ {{}} :
       \E types \in [1..Cardinality(V) -> {"kRepeat", "kSmallVariant"}] :
          /\ variantSpecs = [i \in 1..Cardinality(V) |->
                                VariantSpec(types[i], Ascending(V)[i])]
          /\ graph = LocusGraph(n, {Ascending(V)[i] : i \in
                                     {j \in 1..Cardinality(V) : types[j] = "kRepeat"}})
          /\ vcf \in [1..Cardinality(V) -> Records(MaxLen)]
          /\ \A i \in 1..Cardinality(V) :
                types[i] = "kSmallVariant" => vcf[i] = Absent
    /\ meanFragLen \in 1..MaxLen
    /\ ndebug \in BOOLEAN
    /\ InitEnumerator
    /\ NoSummary
    /\ NoKmerIndex

(* ---------- getGenotypeNodesByNodeRange: one variant per step ---------- *)
InVariantLoop == pc = "extract" /\ variantIdx <= Len(variantSpecs)

Fail(kind) ==
    /\ pc' = "failed"
    /\ error' = kind
    /\ UNCHANGED <<locusVars, variantIdx, genotypeNodesByNodeRange,
                   nodesByDiplotype, node, diplotypes, out, summaryVars, kmerVars>>

\* the check of lines 119-122 made after the VCF lookup of line 128
RejectSmallVariantAfterLookup ==
    /\ InVariantLoop
    /\ variantSpecs[variantIdx].type = "kSmallVariant"
    /\ IF extractRepeatLengths(vcf[variantIdx]).error # "none"
       THEN Fail(extractRepeatLengths(vcf[variantIdx]).error)
       ELSE Fail("UnsupportedVariantType")

\* lines 119-122
RejectSmallVariant ==
    /\ InVariantLoop
    /\ variantSpecs[variantIdx].type = "kSmallVariant"
    /\ Fail("UnsupportedVariantType")

\* lines 46-47, 77-80: the file does not open
VcfUnreadable ==
    /\ InVariantLoop
    /\ variantSpecs[variantIdx].type = "kRepeat"
    /\ Fail("IOError")

\* lines 61-64 and 82: the record is a no-call, or there is none
RecordUnusable ==
    /\ InVariantLoop
    /\ variantSpecs[variantIdx].type = "kRepeat"
    /\ extractRepeatLengths(vcf[variantIdx]).error # "none"
    /\ Fail(extractRepeatLengths(vcf[variantIdx]).error)

\* lines 123-150
AddVariant ==
    /\ InVariantLoop
    /\ variantSpecs[variantIdx].type = "kRepeat"
    /\ extractRepeatLengths(vcf[variantIdx]).error = "none"
    /\ genotypeNodesByNodeRange' =
           Emplace(genotypeNodesByNodeRange,
                   NodeRangeOf(variantSpecs[variantIdx].nodes),
                   GenotypeNodes(variantSpecs[variantIdx], vcf[variantIdx]))
    /\ variantIdx' = variantIdx + 1
    /\ UNCHANGED <<locusVars, pc, nodesByDiplotype, node, diplotypes, error, out,
                   summaryVars, kmerVars>>

(* ------------------- getCandidateDiplotypes: the walk ------------------ *)
\* lines 215-219
BeginWalk ==
    /\ pc = "extract"
    /\ variantIdx > Len(variantSpecs)
    /\ LET numAlleles ==
               Len(genotypeNodesByNodeRange[FirstRange(DOMAIN genotypeNodesByNodeRange)])
       IN  nodesByDiplotype' = <<Fill(numAlleles, <<0>>)>>
    /\ node' = 1
    /\ pc' = "walk"
    /\ UNCHANGED <<locusVars, variantIdx, genotypeNodesByNodeRange, diplotypes,
                   error, out, summaryVars, kmerVars>>

InWalk == pc = "walk" /\ node # numNodes(graph)

\* lines 222-227 and 239
WalkVariantRegion ==
    /\ InWalk
    /\ HasVariantAt(genotypeNodesByNodeRange, node)
    /\ LET found == getVariantGenotypeNodes(genotypeNodesByNodeRange, node)
       IN  /\ ndebug \/ ExtendAssertHolds(nodesByDiplotype, found.first)
           /\ nodesByDiplotype' = extendDiplotype(nodesByDiplotype, found.first)
           /\ node' = found.second + 1
    /\ UNCHANGED <<locusVars, pc, variantIdx, genotypeNodesByNodeRange, diplotypes,
                   error, out, summaryVars, kmerVars>>

\* line 178 in a build with assertions: the process aborts
AssertionFailure ==
    /\ InWalk
    /\ HasVariantAt(genotypeNodesByNodeRange, node)
    /\ ~ndebug
    /\ ~ExtendAssertHolds(nodesByDiplotype,
                          getVariantGenotypeNodes(genotypeNodesByNodeRange, node).first)
    /\ pc' = "aborted"
    /\ UNCHANGED <<locusVars, variantIdx, genotypeNodesByNodeRange, nodesByDiplotype,
                   node, diplotypes, error, out, summaryVars, kmerVars>>

\* lines 228-239
WalkPlainNode ==
    /\ InWalk
    /\ ~HasVariantAt(genotypeNodesByNodeRange, node)
    /\ nodesByDiplotype' =
           [d \in 1..Len(nodesByDiplotype) |->
               [h \in 1..Len(nodesByDiplotype[d]) |->
                   Append(nodesByDiplotype[d][h], node)]]
    /\ node' = node + 1
    /\ UNCHANGED <<locusVars, pc, variantIdx, genotypeNodesByNodeRange, diplotypes,
                   error, out, summaryVars, kmerVars>>

\* lines 242-266
Materialize ==
    /\ pc = "walk"
    /\ node = numNodes(graph)
    /\ diplotypes' = Materialized(nodesByDiplotype)
    /\ pc' = "done"
    /\ UNCHANGED <<locusVars, variantIdx, genotypeNodesByNodeRange, nodesByDiplotype,
                   node, error, out, summaryVars, kmerVars>>

\* operator<< on every returned diplotype
WriteDiplotypes ==
    /\ pc = "done"
    /\ out' = [i \in 1..Len(diplotypes) |-> WriteDiplotype(graph, diplotypes[i])]
    /\ pc' = "printed"
    /\ UNCHANGED <<locusVars, variantIdx, genotypeNodesByNodeRange, nodesByDiplotype,
                   node, diplotypes, error, summaryVars, kmerVars>>

Next ==
    \/ RejectSmallVariant
    \/ VcfUnreadable
    \/ RecordUnusable
    \/ AddVariant
    \/ BeginWalk
    \/ WalkVariantRegion
    \/ AssertionFailure
    \/ WalkPlainNode
    \/ Materialize
    \/ WriteDiplotypes

Spec == Init /\ [][Next]_vars

(* ======================= properties of the enumerator =================== *)
Returned == pc \in {"done", "printed"}
WalkEnded == pc = "walk" /\ node = numNodes(graph)

\* a diplotype with its haplotypes in the other order
Swapped(d) == [h \in 1..Len(d) |-> d[Len(d) + 1 - h]]

\* C1: the returned list has no duplicates up to haplotype order: every
\* returned diplotype has front >= back in the Path order, and no two
\* returned diplotypes are equal or haplotype-order swaps of each other.
C1_CanonicalAndDistinct ==
    Returned =>
        /\ \A i \in 1..Len(diplotypes) :
              ~PathLess(Head(diplotypes[i]), Last(diplotypes[i]))
        /\ \A i, j \in 1..Len(diplotypes) :
              i # j => /\ diplotypes[i] # diplotypes[j]
                       /\ diplotypes[i] # Swapped(diplotypes[j])

\* the walk built two candidates that differ only by haplotype order, and
\* more than one diplotype was returned
C1_Witness ==
    /\ pc = "done"
    /\ Len(diplotypes) >= 2
    /\ \E i, j \in 1..Len(nodesByDiplotype) :
          /\ i # j
          /\ nodesByDiplotype[i] = Swapped(nodesByDiplotype[j])
          /\ nodesByDiplotype[i] # nodesByDiplotype[j]

\* the variants the loop of getGenotypeNodesByNodeRange has added to the map
Added == 1..(variantIdx - 1)

\* C2: an allele of length L under the bound B becomes exactly min(L, B)
\* copies of the variant's repeat node.
C2_CappedCopies ==
    \A i \in Added :
        LET repeatNode == Head(variantSpecs[i].nodes)
            sizes == vcf[i].sizes
            alleles == genotypeNodesByNodeRange[<<repeatNode, repeatNode>>]
        IN  /\ Len(alleles) = Len(sizes)
            /\ \A a \in 1..Len(sizes) :
                  /\ Len(alleles[a]) = Min(sizes[a], meanFragLen)
                  /\ \A k \in 1..Len(alleles[a]) : alleles[a][k] = repeatNode

\* an allele longer than the bound and an allele within the bound have been
\* added
C2_Witness ==
    /\ \E i \in Added : \E a \in 1..Len(vcf[i].sizes) : vcf[i].sizes[a] > meanFragLen
    /\ \E i \in Added : \E a \in 1..Len(vcf[i].sizes) :
          vcf[i].sizes[a] > 0 /\ vcf[i].sizes[a] <= meanFragLen

SmallVariants == {i \in 1..Len(variantSpecs) : variantSpecs[i].type = "kSmallVariant"}
FirstSmall == CHOOSE i \in SmallVariants : \A j \in SmallVariants : i <= j
CallEnded == pc \in {"failed", "aborted", "done", "printed"}

\* C4 as claimed: a locus with a small variant fails with
\* UnsupportedVariantType whatever the records of the other variants are
\* (the VCF file itself being readable).
C4_AlwaysUnsupported ==
    (SmallVariants # {} /\ CallEnded /\ error # "IOError")
        => (pc = "failed" /\ error = "UnsupportedVariantType")

\* C4 amended: a locus with a small variant fails and returns nothing; the
\* failure is UnsupportedVariantType exactly when the loop reaches the first
\* small variant, which it does when the file opens and every variant listed
\* before it has a called record; otherwise it is the failure of the first
\* earlier variant whose record cannot be read.
C4_FailsAtFirstUnusable ==
    (SmallVariants # {} /\ pc # "extract") =>
        /\ pc = "failed"
        /\ diplotypes = <<>> /\ out = <<>>
        /\ variantIdx <= FirstSmall
        /\ (error = "UnsupportedVariantType") <=> (variantIdx = FirstSmall)
        /\ (error # "IOError" /\ \A i \in 1..(FirstSmall - 1) : vcf[i].kind = "called")
              => error = "UnsupportedVariantType"
        /\ variantIdx < FirstSmall =>
              \/ error = "IOError"
              \/ (error = "MissingGenotype" /\ vcf[variantIdx].kind = "nocall")
              \/ (error = "NotFound" /\ vcf[variantIdx].kind = "absent")

\* the small variant is not the first of the list and was reached
C4_Witness ==
    /\ pc = "failed"
    /\ error = "UnsupportedVariantType"
    /\ SmallVariants # {}
    /\ FirstSmall > 1

AllCalled ==
    \A i \in 1..Len(variantSpecs) :
        variantSpecs[i].type = "kRepeat" /\ vcf[i].kind = "called"
AlleleCounts == {Len(vcf[i].sizes) : i \in 1..Len(variantSpecs)}

\* C5 as claimed: regions with different allele counts end the enumeration
\* in an InconsistentAlleleCount failure, and no diplotype is returned (the
\* VCF file being readable).
C5_InconsistentCountFails ==
    (AllCalled /\ Cardinality(AlleleCounts) > 1 /\ CallEnded /\ error # "IOError")
        => (pc = "failed" /\ error = "InconsistentAlleleCount" /\ diplotypes = <<>>)

\* C5, second half alone: no returned diplotype set drops or duplicates an
\* allele, that is every haplotype count equals every region's allele count.
C5_NoAlleleDropped ==
    (Returned /\ AllCalled) =>
        \A d \in 1..Len(diplotypes) : AlleleCounts = {Len(diplotypes[d])}

Regions == DOMAIN genotypeNodesByNodeRange
AllRegionsHave(a) == \A r \in Regions : Len(genotypeNodesByNodeRange[r]) = a

RECURSIVE Haplotype(_, _, _)
\* the node ids from node n on of the haplotype that takes allele choice[r]
\* at every region r (flip: the other allele), and every other node once
Haplotype(choice, flip, n) ==
    IF n >= numNodes(graph) THEN <<>>
    ELSE LET here == {r \in Regions : r[1] = n}
             inside == RangesAt(genotypeNodesByNodeRange, n)
         IN  (IF here # {}
              THEN LET r == CHOOSE r \in here : TRUE
                       a == IF flip THEN 3 - choice[r] ELSE choice[r]
                   IN  genotypeNodesByNodeRange[r][a]
              ELSE IF inside # {} THEN <<>> ELSE <<n>>)
             \o Haplotype(choice, flip, n + 1)

PhaseAssignments ==
    {<< <<0>> \o Haplotype(c, FALSE, 1), <<0>> \o Haplotype(c, TRUE, 1)>>
        : c \in [Regions -> {1, 2}]}

\* the pair of Paths of a candidate, greater Path first
GreaterFirst(candidate) ==
    LET len == Len(nodeSeq(graph, numNodes(graph) - 1))
        a == Path(0, candidate[1], len)
        b == Path(0, candidate[2], len)
    IN  IF PathLess(a, b) THEN <<b, a>> ELSE <<a, b>>

\* C8: with R two-allele regions the walk builds exactly the 2^R phase
\* assignments, and the returned list is their canonical image without
\* duplicates, of at most 2^(R-1) diplotypes; with one allele per region
\* there is one candidate and one returned diplotype.
C8_PhaseAssignments ==
    /\ (WalkEnded \/ Returned) /\ AllRegionsHave(2) =>
          /\ Len(nodesByDiplotype) = Pow2(Cardinality(Regions))
          /\ {nodesByDiplotype[i] : i \in 1..Len(nodesByDiplotype)} = PhaseAssignments
    /\ Returned /\ AllRegionsHave(2) =>
          /\ Len(diplotypes) <= Pow2(Cardinality(Regions) - 1)
          /\ {diplotypes[i] : i \in 1..Len(diplotypes)}
                = {GreaterFirst(c) : c \in PhaseAssignments}
          /\ Cardinality({diplotypes[i] : i \in 1..Len(diplotypes)}) = Len(diplotypes)
    /\ (WalkEnded \/ Returned) /\ AllRegionsHave(1) =>
          Len(nodesByDiplotype) = 1
    /\ Returned /\ AllRegionsHave(1) => Len(diplotypes) = 1

\* two two-allele regions gave four distinct candidates and two diplotypes
C8_Witness ==
    /\ pc = "done"
    /\ AllRegionsHave(2)
    /\ Cardinality(Regions) = 2
    /\ Cardinality({nodesByDiplotype[i] : i \in 1..Len(nodesByDiplotype)}) = 4
    /\ Len(diplotypes) = 2

NonDecreasing(s) == \A i \in 1..(Len(s) - 1) : s[i] <= s[i + 1]

\* C9: every returned haplotype Path starts at offset 0 on node 0, ends on
\* the right flank at that node's length, holds the right flank once, has
\* non-decreasing node ids, holds every node outside the variant regions
\* once, and holds of every region exactly one of its allele NodeVectors.
C9_HaplotypeShape ==
    Returned =>
        \A d \in 1..Len(diplotypes) : \A h \in 1..Len(diplotypes[d]) :
            LET p == diplotypes[d][h]
                rightFlankNode == numNodes(graph) - 1
            IN  /\ p.startPos = 0
                /\ Head(p.nodes) = 0
                /\ Last(p.nodes) = rightFlankNode
                /\ p.endPos = Len(nodeSeq(graph, rightFlankNode))
                /\ Count(p.nodes, rightFlankNode) = 1
                /\ NonDecreasing(p.nodes)
                /\ \A n \in 0..rightFlankNode :
                      ~HasVariantAt(genotypeNodesByNodeRange, n) => Count(p.nodes, n) = 1
                /\ \A r \in Regions :
                      \E a \in 1..Len(genotypeNodesByNodeRange[r]) :
                          SelectSeq(p.nodes, LAMBDA x : r[1] <= x /\ x <= r[2])
                             = genotypeNodesByNodeRange[r][a]

\* a returned haplotype crosses a repeat of two or more copies and a plain
\* interior node
C9_Witness ==
    /\ pc = "done"
    /\ \E d \in 1..Len(diplotypes) : \E h \in 1..Len(diplotypes[d]) :
          \E n, m \in 1..(numNodes(graph) - 2) :
              /\ Count(diplotypes[d][h].nodes, n) >= 2
              /\ ~HasVariantAt(genotypeNodesByNodeRange, m)

(* ===================== the worked example of the spec =================== *)
\* LF - (CAG)* - RF with one repeat variant on node 1
InitExample ==
    /\ graph = LocusGraph(3, {1})
    /\ variantSpecs = <<VariantSpec("kRepeat", 1)>>
    /\ vcf \in [1..1 -> Records(MaxExampleLen)]
    /\ meanFragLen \in 1..MaxExampleLen
    /\ ndebug \in BOOLEAN
    /\ InitEnumerator
    /\ NoSummary
    /\ NoKmerIndex

NextExample ==
    \/ VcfUnreadable
    \/ RecordUnusable
    \/ AddVariant
    \/ BeginWalk
    \/ WalkVariantRegion
    \/ WalkPlainNode
    \/ Materialize
    \/ WriteDiplotypes

SpecExample == InitExample /\ [][NextExample]_vars

ExampleGenotype(sizes) ==
    /\ vcf[1] = Called(sizes)
    /\ meanFragLen >= 4

\* C3: genotype 3/4 (or 4/3) on LF-(CAG)*-RF without capping gives exactly
\* one diplotype, whose front haplotype crosses node 1 three times and whose
\* back haplotype crosses it four times, written
\* (LF)(CAG){3}(RF)/(LF)(CAG){4}(RF).
C3_WorkedExample ==
    (pc = "printed" /\ (ExampleGenotype(<<3, 4>>) \/ ExampleGenotype(<<4, 3>>))) =>
        /\ Len(diplotypes) = 1
        /\ Len(diplotypes[1]) = 2
        /\ Count(diplotypes[1][1].nodes, 1) = 3
        /\ Count(diplotypes[1][2].nodes, 1) = 4
        /\ out = <<"(LF)(CAG){3}(RF)/(LF)(CAG){4}(RF)">>

C3_Witness ==
    /\ pc = "printed"
    /\ ExampleGenotype(<<3, 4>>)
    /\ Len(out) = 1

(* ============================ the walk alone ============================ *)
\* every inclusive range [from, to] with 1 <= from <= to <= n - 1
ValidRanges(n) == {r \in (1..(n - 1)) \X (1..(n - 1)) : r[1] <= r[2]}

\* the state after line 219 for a graph of n >= 1 nodes and any map over
\* valid ranges whose regions all have the same number of alleles.  For the
\* empty map line 215 reads through end(): the count it yields is arbitrary.
InitWalk ==
    /\ \E n \in 1..MaxNodes : graph = LocusGraph(n, {})
    /\ \E ranges \in SUBSET ValidRanges(numNodes(graph)) : \E numAlleles \in 1..2 :
          /\ genotypeNodesByNodeRange =
                [r \in ranges |-> [a \in 1..numAlleles |-> Fill(a, r[1])]]
          /\ nodesByDiplotype = <<Fill(numAlleles, <<0>>)>>
    /\ variantSpecs = <<>>
    /\ vcf = <<>>
    /\ meanFragLen = MaxLen
    /\ ndebug \in BOOLEAN
    /\ pc = "walk"
    /\ variantIdx = 1
    /\ node = 1
    /\ diplotypes = <<>>
    /\ error = "none"
    /\ out = <<>>
    /\ NoSummary
    /\ NoKmerIndex

NextWalk ==
    \/ WalkVariantRegion
    \/ WalkPlainNode
    \/ Materialize

\* the loop is sequential code: an iteration that can run does run
SpecWalk == InitWalk /\ [][NextWalk]_vars /\ WF_vars(WalkVariantRegion \/ WalkPlainNode)

\* C10: the walk pointer strictly increases at every iteration, never passes
\* numNodes, equals numNodes when the loop exits, and the loop condition
\* node != numNodes does become false.
C10_WalkTerminates ==
    /\ [](pc = "walk" => node <= numNodes(graph))
    /\ [][(pc = "walk" /\ pc' = "walk") => node' > node]_vars
    /\ [][(pc = "walk" /\ pc' # "walk") => node = numNodes(graph)]_vars
    /\ <>(node = numNodes(graph))

\* the loop has exited after a jump over a region of several nodes that ends
\* on the last node
C10_Witness ==
    /\ pc = "done"
    /\ node = numNodes(graph)
    /\ \E r \in Regions : r[1] < r[2] /\ r[2] = numNodes(graph) - 1

(* ============================ summarizePath ============================= *)
\* a graph of n nodes with the given self-loops
InitSummary ==
    /\ \E n \in 2..MaxNodes : \E loops \in SUBSET (0..(n - 1)) :
          /\ graph = [nodeSeqs |-> LocusGraph(n, {}).nodeSeqs,
                      edges |-> LocusGraph(n, {}).edges \cup {<<v, v>> : v \in loops}]
          /\ \E len \in 1..MaxPathLen : \E nodes \in [1..len -> 0..(n - 1)] :
                path = Path(0, nodes, Len(nodeSeq(graph, nodes[len])))
    /\ summary = ""
    /\ pc = "summarize"
    /\ variantSpecs = <<>>
    /\ vcf = <<>>
    /\ meanFragLen = MaxLen
    /\ ndebug = TRUE
    /\ variantIdx = 1
    /\ genotypeNodesByNodeRange = <<>>
    /\ nodesByDiplotype = <<>>
    /\ node = 0
    /\ diplotypes = <<>>
    /\ error = "none"
    /\ out = <<>>
    /\ NoKmerIndex

Summarize ==
    /\ pc = "summarize"
    /\ summary' = summarizePath(graph, path)
    /\ pc' = "summarized"
    /\ UNCHANGED <<locusVars, enumVars, path, kmerVars>>

NextSummary == Summarize

SpecSummary == InitSummary /\ [][NextSummary]_vars

\* the positions of a node-id sequence that hold the first visit of a node
FirstVisits(nodes) == {i \in 1..Len(nodes) : \A j \in 1..(i - 1) : nodes[j] # nodes[i]}

RECURSIVE ExpectedSummary(_, _)
\* the rendering C6 describes, for the first visits from position i on
ExpectedSummary(nodes, i) ==
    IF i > Len(nodes) THEN ""
    ELSE (IF i \notin FirstVisits(nodes) THEN ""
          ELSE IF nodes[i] = 0 THEN "(LF)"
          ELSE IF nodes[i] = numNodes(graph) - 1 THEN "(RF)"
          ELSE IF <<nodes[i], nodes[i]>> \in graph.edges
               THEN "(" \o Str(graph.nodeSeqs[nodes[i] + 1]) \o "){"
                    \o ToString(Cardinality({j \in 1..Len(nodes) : nodes[j] = nodes[i]}))
                    \o "}"
          ELSE "(" \o Str(graph.nodeSeqs[nodes[i] + 1]) \o ")")
         \o ExpectedSummary(nodes, i + 1)

\* C6: summarizePath renders every distinct node id once, in order of first
\* visit: node 0 as (LF), the last node as (RF), any other node as its
\* sequence in parentheses, followed for a self-loop node by {c} with c the
\* number of occurrences of the node in the whole path.
C6_SummaryRendering ==
    pc = "summarized" => summary = ExpectedSummary(path.nodes, 1)

\* a self-loop node between the flanks is visited in two separate runs
C6_Witness ==
    /\ pc = "summarized"
    /\ \E i, j, k \in 1..Len(path.nodes) :
          /\ i < j /\ j < k
          /\ path.nodes[i] = path.nodes[k]
          /\ path.nodes[j] # path.nodes[i]
          /\ path.nodes[i] \in 1..(numNodes(graph) - 2)
          /\ hasEdge(graph, path.nodes[i], path.nodes[i])

(* ============================ the k-mer index =========================== *)
\* makeDeletionGraph(left, del, right): 0 -> 1 -> 2 and 0 -> 2
makeDeletionGraph(left, del, right) ==
    [nodeSeqs |-> <<left, del, right>>,
     edges |-> {<<0, 1>>, <<1, 2>>, <<0, 2>>}]

\* makeDoubleSwapGraph(left, del1, ins1, mid, del2, ins2, right)
makeDoubleSwapGraph(left, del1, ins1, mid, del2, ins2, right) ==
    [nodeSeqs |-> <<left, del1, ins1, mid, del2, ins2, right>>,
     edges |-> {<<0, 1>>, <<0, 2>>, <<1, 3>>, <<2, 3>>,
                <<3, 4>>, <<3, 5>>, <<4, 6>>, <<5, 6>>}]

\* the graphs of the unit tests
Graph1mers == makeDeletionGraph(<<"A", "C">>, <<"G", "G">>, <<"C", "A", "G">>)
Graph2mers == makeDeletionGraph(<<"A", "K">>, <<"G", "G">>, <<"C", "A", "G">>)
GraphPaths ==
    makeDoubleSwapGraph(<<"A", "A", "A">>, <<"T", "T", "T">>, <<"C", "C", "C">>,
                        <<"A", "A", "A">>, <<"T", "T", "T">>, <<"A", "A", "A">>,
                        <<"T", "T", "T">>)

Entry(kmerString, p) == [kmer |-> kmerString, path |-> p]

\* the index the test 1mers_IndexCreated expects
Expected1mers ==
    {Entry("A", Path(0, <<0>>, 1)), Entry("A", Path(1, <<2>>, 2)),
     Entry("C", Path(1, <<0>>, 2)), Entry("C", Path(0, <<2>>, 1)),
     Entry("G", Path(0, <<1>>, 1)), Entry("G", Path(1, <<1>>, 2)),
     Entry("G", Path(2, <<2>>, 3))}

\* the expected 2-mer index with the path of "TG" starting one base early
Expected2mersEarlyStart ==
    {Entry("AG", Path(0, <<0>>, 2)), Entry("AG", Path(1, <<2>>, 3)),
     Entry("AT", Path(0, <<0>>, 2)),
     Entry("GG", Path(1, <<0, 1>>, 1)), Entry("GG", Path(0, <<1>>, 2)),
     Entry("TG", Path(0, <<0, 1>>, 1)),
     Entry("GC", Path(1, <<0, 2>>, 1)), Entry("GC", Path(1, <<1, 2>>, 1)),
     Entry("TC", Path(1, <<0, 2>>, 1)),
     Entry("CA", Path(0, <<2>>, 2))}

\* the index the test 2mers_IndexCreated expects
Expected2mers ==
    {Entry("AG", Path(0, <<0>>, 2)), Entry("AG", Path(1, <<2>>, 3)),
     Entry("AT", Path(0, <<0>>, 2)),
     Entry("GG", Path(1, <<0, 1>>, 1)), Entry("GG", Path(0, <<1>>, 2)),
     Entry("TG", Path(1, <<0, 1>>, 1)),
     Entry("GC", Path(1, <<0, 2>>, 1)), Entry("GC", Path(1, <<1, 2>>, 1)),
     Entry("TC", Path(1, <<0, 2>>, 1)),
     Entry("CA", Path(0, <<2>>, 2))}

\* the paths the test TypicalIndex_PathsExtracted expects of getPaths("AATT")
ExpectedAATT ==
    {Entry("AATT", Path(1, <<0, 1>>, 2)), Entry("AATT", Path(1, <<3, 4>>, 2)),
     Entry("AATT", Path(1, <<5, 6>>, 2))}

\* the bases a reference symbol stands for
Expand(symbol) ==
    CASE symbol = "A" -> {"A"}
      [] symbol = "C" -> {"C"}
      [] symbol = "G" -> {"G"}
      [] symbol = "T" -> {"T"}
      [] symbol = "R" -> {"A", "G"}
      [] symbol = "Y" -> {"C", "T"}
      [] symbol = "K" -> {"G", "T"}
      [] symbol = "M" -> {"A", "C"}
      [] symbol = "S" -> {"C", "G"}
      [] symbol = "W" -> {"A", "T"}
      [] symbol = "B" -> {"C", "G", "T"}
      [] symbol = "D" -> {"A", "G", "T"}
      [] symbol = "H" -> {"A", "C", "T"}
      [] symbol = "V" -> {"A", "C", "G"}
      [] symbol = "N" -> {"A", "C", "G", "T"}

\* every base string a reference sequence stands for
Expansions(seq) ==
    {e \in [1..Len(seq) -> {"A", "C", "G", "T"}] :
        \A i \in 1..Len(seq) : e[i] \in Expand(seq[i])}

RECURSIVE WholeNodes(_, _, _, _)
\* the sequences of nodes[i..j], whole
WholeNodes(g, nodes, i, j) ==
    IF i > j THEN <<>>
    ELSE nodeSeq(g, nodes[i]) \o WholeNodes(g, nodes, i + 1, j)

\* Path::seq(): the node sequences joined and cut at the two offsets
PathSeq(g, p) ==
    LET n == Len(p.nodes)
        first == nodeSeq(g, p.nodes[1])
        last == nodeSeq(g, p.nodes[n])
    IN  IF n = 1 THEN SubSeq(first, p.startPos + 1, p.endPos)
        ELSE SubSeq(first, p.startPos + 1, Len(first))
             \o WholeNodes(g, p.nodes, 2, n - 1)
             \o SubSeq(last, 1, p.endPos)

\* Path::length(), counted over the nodes
PathLength(g, p) ==
    LET n == Len(p.nodes)
    IN  IF n = 1 THEN p.endPos - p.startPos
        ELSE (Len(nodeSeq(g, p.nodes[1])) - p.startPos)
             + Len(WholeNodes(g, p.nodes, 2, n - 1)) + p.endPos

KmerGraphs == {Graph1mers, Graph2mers, GraphPaths, LocusGraph(3, {1})}

InitKmer ==
    /\ graph \in KmerGraphs
    /\ kmerSize \in 1..MaxK
    /\ kmerPath = Path(0, <<>>, 0)
    /\ kmer = <<>>
    /\ pc = "seed"
    /\ variantSpecs = <<>>
    /\ vcf = <<>>
    /\ meanFragLen = MaxLen
    /\ ndebug = TRUE
    /\ variantIdx = 1
    /\ genotypeNodesByNodeRange = <<>>
    /\ nodesByDiplotype = <<>>
    /\ node = 0
    /\ diplotypes = <<>>
    /\ error = "none"
    /\ out = <<>>
    /\ NoSummary

\* a walk starts on any base of any node
SeedPath ==
    /\ pc = "seed"
    /\ \E n \in 0..(numNodes(graph) - 1) : \E pos \in 0..(Len(nodeSeq(graph, n)) - 1) :
          kmerPath' = Path(pos, <<n>>, pos + 1)
    /\ pc' = "extend"
    /\ UNCHANGED <<locusVars, enumVars, summaryVars, kmerSize, kmer>>

Extending == pc = "extend" /\ PathLength(graph, kmerPath) < kmerSize

\* one more base of the last node
ExtendWithinNode ==
    /\ Extending
    /\ kmerPath.endPos < Len(nodeSeq(graph, Last(kmerPath.nodes)))
    /\ kmerPath' = [kmerPath EXCEPT !.endPos = @ + 1]
    /\ UNCHANGED <<locusVars, enumVars, summaryVars, kmerSize, kmer, pc>>

\* the first base of a successor of the last node (itself, on a self-loop)
ExtendToSuccessor ==
    /\ Extending
    /\ kmerPath.endPos = Len(nodeSeq(graph, Last(kmerPath.nodes)))
    /\ \E succ \in 0..(numNodes(graph) - 1) :
          /\ hasEdge(graph, Last(kmerPath.nodes), succ)
          /\ Len(nodeSeq(graph, succ)) > 0
          /\ kmerPath' = Path(kmerPath.startPos, Append(kmerPath.nodes, succ), 1)
    /\ UNCHANGED <<locusVars, enumVars, summaryVars, kmerSize, kmer, pc>>

\* a walk of k bases is filed under every expansion of its sequence
FileUnderKmer ==
    /\ pc = "extend"
    /\ PathLength(graph, kmerPath) = kmerSize
    /\ kmer' \in Expansions(PathSeq(graph, kmerPath))
    /\ pc' = "indexed"
    /\ UNCHANGED <<locusVars, enumVars, summaryVars, kmerSize, kmerPath>>

NextKmer ==
    \/ SeedPath
    \/ ExtendWithinNode
    \/ ExtendToSuccessor
    \/ FileUnderKmer

SpecKmer == InitKmer /\ [][NextKmer]_vars

\* the entries the unit tests expect of the index of the state's graph and k
TestedEntries ==
    IF graph = Graph1mers /\ kmerSize = 1 THEN Expected1mers
    ELSE IF graph = Graph2mers /\ kmerSize = 2 THEN Expected2mers
    ELSE IF graph = GraphPaths /\ kmerSize = 4 THEN ExpectedAATT
    ELSE {}

\* the modelled index files nothing the unit tests do not expect
KmerIndexAgreesWithTests ==
    (pc = "indexed" /\ TestedEntries # {}
        /\ (graph = GraphPaths => Str(kmer) = "AATT"))
        => Entry(Str(kmer), kmerPath) \in TestedEntries

====
